---- MODULE Spec2Model ----
(***************************************************************************)
(* The Farkle / Zehntausend turn engine, in its two implementations:       *)
(*   "ts"  : web-ui/src/farkle-engine.ts  (class FarkleEngine)              *)
(*   "cpp" : src/farkle_core.cpp          (class FarkleEngine)              *)
(* One game instance is one behaviour; the implementation is fixed at      *)
(* construction.  Every public operation is one atomic action.  The        *)
(* advisory message string is not modelled (no operation reads it).        *)
(***************************************************************************)
EXTENDS Integers, Sequences, FiniteSets, TLC

VARIABLES engine, players, currentPlayerIndex, dice, turnScore,
          currentKeepScore, status, lastOp, pre, arg, aiPc

\* lastOp, pre and arg are history variables: the last call, the engine
\* state it was made in and the die id it was given.  aiPc is the position
\* of the page's computer-turn routine (playTurn), idle where no page runs.
vars == <<engine, players, currentPlayerIndex, dice, turnScore,
          currentKeepScore, status, lastOp, pre, arg, aiPc>>

(***************************************************************************)
(* Program constants.                                                      *)
(***************************************************************************)
NumDice == 6
WinScore == 10000
\* both engines default to a two-player session
NumPlayers == 2
\* the smallest amount a selection can score (one five)
PointUnit == 50

(***************************************************************************)
(* Bounds of the exploration, in units of PointUnit points.                *)
(***************************************************************************)
\* every player's total when the explored turn starts
StartTotal == 198
\* roll() and computerMove() are explored while the pot is at most MaxPot
MaxPot == 20
\* bank() is explored while the banking player's total stays at most MaxTotal
MaxTotal == 200
\* in the one-turn specification roll() and computerMove() are explored
\* while the pot is at most TurnMaxPot
TurnMaxPot == 12

Engines == {"ts", "cpp"}
DieStates == {"rolled", "kept", "banked"}
Statuses == {"rolling", "farkle", "bust", "win"}
DieIdx == 1..NumDice

(***************************************************************************)
(* The random source.  One roll outcome gives a face to each of the six    *)
(* positions; a die that is rolled takes the face of its position.         *)
(* std::uniform_int_distribution<>(1, 6) yields 1..6.                      *)
(* Math.ceil(Math.random() * 6) yields 1..6, and 0 when Math.random()      *)
(* returns 0.                                                              *)
(***************************************************************************)
RollOutcomes ==
  { <<1,1,1,2,3,4>>, <<2,3,4,6,2,3>>, <<2,2,5,2,2,6>>, <<2,2,2,3,3,3>> }

ZeroOutcomes == { <<0,3,4,6,2,3>> }

Outcomes(e) == IF e = "ts" THEN RollOutcomes \cup ZeroOutcomes ELSE RollOutcomes

(***************************************************************************)
(* Helpers over a dice array (a sequence of [id, value, state]).           *)
(***************************************************************************)
\* positions of the dice of ds that are in state st
InState(ds, st) == {i \in DOMAIN ds : ds[i].state = st}

\* getCounts: how many of the dice at positions S show v
getCounts(ds, S, v) == Cardinality({i \in S : ds[i].value = v})

\* the n lowest positions of S (Array.prototype.slice(0, n) of a filtered array)
FirstN(S, n) == {i \in S : Cardinality({j \in S : j < i}) < n}

\* the position of the first die whose id is dieId, 0 when there is none
FindDie(ds, dieId) ==
  IF \E i \in DOMAIN ds : ds[i].id = dieId
  THEN CHOOSE i \in DOMAIN ds :
         ds[i].id = dieId /\ \A j \in DOMAIN ds : ds[j].id = dieId => i <= j
  ELSE 0

SetState(ds, S, st) ==
  [i \in DOMAIN ds |-> IF i \in S THEN [ds[i] EXCEPT !.state = st] ELSE ds[i]]

SetValues(ds, S, r) ==
  [i \in DOMAIN ds |-> IF i \in S THEN [ds[i] EXCEPT !.value = r[i]] ELSE ds[i]]

(***************************************************************************)
(* Scoring evaluators.                                                     *)
(***************************************************************************)
RECURSIVE Pow2(_)
Pow2(n) == IF n = 0 THEN 1 ELSE 2 * Pow2(n - 1)

\* TypeScript: every flat group of three scores the base (the while loop),
\* the rest are singles
RECURSIVE evaluateScoringFace(_, _)
evaluateScoringFace(i, count) ==
  IF count >= 3
  THEN (IF i = 1 THEN 1000 ELSE i * 100) + evaluateScoringFace(i, count - 3)
  ELSE (IF i = 1 THEN count * 100 ELSE 0) + (IF i = 5 THEN count * 50 ELSE 0)

\* the for loop over the faces i..6
RECURSIVE evaluateScoringFrom(_, _, _)
evaluateScoringFrom(ds, S, i) ==
  IF i > 6 THEN 0
  ELSE evaluateScoringFace(i, getCounts(ds, S, i)) + evaluateScoringFrom(ds, S, i + 1)

evaluateScoring(ds, S) == evaluateScoringFrom(ds, S, 1)

\* evaluate_scoring()'s face term with a single five scored like a single one
evaluate_scoring_face_fivesAsOnes(i, c) ==
  LET base == IF i = 1 THEN 1000 ELSE i * 100
      rest == IF c >= 3 THEN 0 ELSE c
  IN  (IF c >= 3 THEN base * Pow2(c - 3) ELSE 0)
      + (IF i = 1 THEN rest * 100 ELSE 0)
      + (IF i = 5 THEN rest * 100 ELSE 0)

\* evaluate_scoring()'s face term without the doubling per extra die
evaluate_scoring_face_noDoubling(i, c) ==
  LET base == IF i = 1 THEN 1000 ELSE i * 100
      rest == IF c >= 3 THEN 0 ELSE c
  IN  (IF c >= 3 THEN base ELSE 0)
      + (IF i = 1 THEN rest * 100 ELSE 0)
      + (IF i = 5 THEN rest * 50 ELSE 0)

\* C++: three or more of a kind score base * 2^(count-3), the rest are singles
evaluate_scoring_face(i, c) ==
  LET base == IF i = 1 THEN 1000 ELSE i * 100
      rest == IF c >= 3 THEN 0 ELSE c
  IN  (IF c >= 3 THEN base * Pow2(c - 3) ELSE 0)
      + (IF i = 1 THEN rest * 100 ELSE 0)
      + (IF i = 5 THEN rest * 50 ELSE 0)

\* the for loop over the faces i..6
RECURSIVE evaluate_scoring_from(_, _, _)
evaluate_scoring_from(ds, S, i) ==
  IF i > 6 THEN 0
  ELSE evaluate_scoring_face(i, getCounts(ds, S, i)) + evaluate_scoring_from(ds, S, i + 1)

evaluate_scoring(ds, S) == evaluate_scoring_from(ds, S, 1)

\* the Farkle test taken over the whole pool instead of the dice just rolled
has_scoring_potential_pool(ds, S) ==
  \/ getCounts(ds, DOMAIN ds, 1) > 0
  \/ getCounts(ds, DOMAIN ds, 5) > 0
  \/ \E i \in DOMAIN ds : getCounts(ds, DOMAIN ds, ds[i].value) >= 3

\* roll()'s Farkle test on the dice just rolled (both engines)
has_scoring_potential(ds, S) ==
  \/ getCounts(ds, S, 1) > 0
  \/ getCounts(ds, S, 5) > 0
  \/ \E i \in S : getCounts(ds, S, ds[i].value) >= 3

(***************************************************************************)
(* The game state as a record, so that operations compose.                 *)
(***************************************************************************)
Game ==
  [players |-> players, currentPlayerIndex |-> currentPlayerIndex,
   dice |-> dice, turnScore |-> turnScore,
   currentKeepScore |-> currentKeepScore, status |-> status]

\* the values of pre and arg where no call is recorded
Untracked ==
  [players |-> <<>>, currentPlayerIndex |-> 0, dice |-> <<>>, turnScore |-> 0,
   currentKeepScore |-> 0, status |-> "rolling"]

NoArg == -2

\* createDice numbering the dice from 1
createDice_from1(r) == [i \in DieIdx |-> [id |-> i, value |-> r[i], state |-> "rolled"]]

createDice(r) == [i \in DieIdx |-> [id |-> i - 1, value |-> r[i], state |-> "rolled"]]

(***************************************************************************)
(* TypeScript engine.                                                      *)
(***************************************************************************)
recalcKeepScore(g) ==
  [g EXCEPT !.currentKeepScore = evaluateScoring(g.dice, InState(g.dice, "kept"))]

\* roll() that commits the selection without clearing currentKeepScore
roll_keepsKeepScore(g, r) ==
  LET keptDice == InState(g.dice, "kept")
      d1 == SetState(g.dice, keptDice, "banked")
      ts1 == IF keptDice # {} THEN g.turnScore + g.currentKeepScore ELSE g.turnScore
      rolled == InState(d1, "rolled")
      hot == rolled = {}
      d2 == IF hot THEN SetState(d1, DOMAIN d1, "rolled") ELSE d1
      diceToRoll == IF hot THEN DOMAIN d1 ELSE rolled
      d3 == SetValues(d2, diceToRoll, r)
  IN  IF ~has_scoring_potential(d3, diceToRoll)
      THEN [g EXCEPT !.dice = d3, !.status = "farkle",
                     !.turnScore = 0, !.currentKeepScore = 0]
      ELSE [g EXCEPT !.dice = d3, !.status = "rolling", !.turnScore = ts1]

\* roll() without the hot-hand reset
roll_noHotHand(g, r) ==
  LET keptDice == InState(g.dice, "kept")
      d1 == SetState(g.dice, keptDice, "banked")
      ts1 == IF keptDice # {} THEN g.turnScore + g.currentKeepScore ELSE g.turnScore
      ks1 == IF keptDice # {} THEN 0 ELSE g.currentKeepScore
      diceToRoll == InState(d1, "rolled")
      d3 == SetValues(d1, diceToRoll, r)
      hasScore == has_scoring_potential(d3, diceToRoll)
  IN  IF ~hasScore
      THEN [g EXCEPT !.dice = d3, !.status = "farkle",
                     !.turnScore = 0, !.currentKeepScore = 0]
      ELSE [g EXCEPT !.dice = d3, !.status = "rolling",
                     !.turnScore = ts1, !.currentKeepScore = ks1]

roll(g, r) ==
  LET keptDice == InState(g.dice, "kept")
      d1 == SetState(g.dice, keptDice, "banked")
      ts1 == IF keptDice # {} THEN g.turnScore + g.currentKeepScore ELSE g.turnScore
      ks1 == IF keptDice # {} THEN 0 ELSE g.currentKeepScore
      rolled == InState(d1, "rolled")
      hot == rolled = {}
      d2 == IF hot THEN SetState(d1, DOMAIN d1, "rolled") ELSE d1
      diceToRoll == IF hot THEN DOMAIN d1 ELSE rolled
      d3 == SetValues(d2, diceToRoll, r)
      hasScore == has_scoring_potential(d3, diceToRoll)
  IN  IF ~hasScore
      THEN [g EXCEPT !.dice = d3, !.status = "farkle",
                     !.turnScore = 0, !.currentKeepScore = 0]
      ELSE [g EXCEPT !.dice = d3, !.status = "rolling",
                     !.turnScore = ts1, !.currentKeepScore = ks1]

\* toggleKeep() whose deselection turns back only the clicked die
toggleKeep_unkeepOne(g, dieId) ==
  LET k == FindDie(g.dice, dieId) IN
  IF g.status # "rolling" THEN g
  ELSE IF k = 0 \/ g.dice[k].state = "banked" THEN g
  ELSE LET val == g.dice[k].value IN
    IF g.dice[k].state = "kept"
    THEN recalcKeepScore([g EXCEPT !.dice = SetState(g.dice, {k}, "rolled")])
    ELSE LET rolledOfVal == {i \in InState(g.dice, "rolled") : g.dice[i].value = val}
         IN  IF Cardinality(rolledOfVal) >= 3
             THEN recalcKeepScore(
                    [g EXCEPT !.dice = SetState(g.dice, FirstN(rolledOfVal, 3), "kept")])
             ELSE IF val = 1 \/ val = 5
             THEN recalcKeepScore([g EXCEPT !.dice = SetState(g.dice, {k}, "kept")])
             ELSE g

toggleKeep(g, dieId) ==
  LET k == FindDie(g.dice, dieId) IN
  IF g.status # "rolling" THEN g
  ELSE IF k = 0 \/ g.dice[k].state = "banked" THEN g
  ELSE LET val == g.dice[k].value IN
    IF g.dice[k].state = "kept"
    THEN LET keptOfVal == {i \in InState(g.dice, "kept") : g.dice[i].value = val}
         IN  recalcKeepScore([g EXCEPT !.dice = SetState(g.dice, keptOfVal, "rolled")])
    ELSE LET rolledOfVal == {i \in InState(g.dice, "rolled") : g.dice[i].value = val}
         IN  IF Cardinality(rolledOfVal) >= 3
             THEN recalcKeepScore(
                    [g EXCEPT !.dice = SetState(g.dice, FirstN(rolledOfVal, 3), "kept")])
             ELSE IF val = 1 \/ val = 5
             THEN recalcKeepScore([g EXCEPT !.dice = SetState(g.dice, {k}, "kept")])
             ELSE g

\* passTurn() that credits the pot to the player who passes
passTurn_credits(g, r) ==
  [g EXCEPT !.turnScore = 0, !.currentKeepScore = 0,
            !.players[g.currentPlayerIndex + 1] =
               g.players[g.currentPlayerIndex + 1] + g.turnScore + g.currentKeepScore,
            !.currentPlayerIndex = (g.currentPlayerIndex + 1) % Len(g.players),
            !.dice = createDice(r), !.status = "rolling"]

passTurn(g, r) ==
  [g EXCEPT !.turnScore = 0, !.currentKeepScore = 0,
            !.currentPlayerIndex = (g.currentPlayerIndex + 1) % Len(g.players),
            !.dice = createDice(r), !.status = "rolling"]

\* bank() whose win check is score > 10000
bank_strictWin(g, r) ==
  IF g.currentKeepScore = 0 /\ g.turnScore = 0 THEN g
  ELSE LET ts1 == g.turnScore + g.currentKeepScore
           p == g.currentPlayerIndex + 1
           g1 == [g EXCEPT !.turnScore = ts1, !.currentKeepScore = 0,
                           !.dice = SetState(g.dice, InState(g.dice, "kept"), "banked"),
                           !.players[p] = g.players[p] + ts1]
       IN  IF g1.players[p] > WinScore
           THEN [g1 EXCEPT !.status = "win"]
           ELSE passTurn(g1, r)

bank(g, r) ==
  IF g.currentKeepScore = 0 /\ g.turnScore = 0 THEN g
  ELSE LET ts1 == g.turnScore + g.currentKeepScore
           p == g.currentPlayerIndex + 1
           g1 == [g EXCEPT !.turnScore = ts1, !.currentKeepScore = 0,
                           !.dice = SetState(g.dice, InState(g.dice, "kept"), "banked"),
                           !.players[p] = g.players[p] + ts1]
       IN  IF g1.players[p] >= WinScore
           THEN [g1 EXCEPT !.status = "win"]
           ELSE passTurn(g1, r)

\* the dice computerMove keeps out of the rolled ones: per face the first
\* three when three or more show it (all six when six do), then every
\* remaining 1 and 5
aiKeeps(ds) ==
  LET rolled == InState(ds, "rolled")
      ofVal(v) == {i \in rolled : ds[i].value = v}
      triples(v) == IF Cardinality(ofVal(v)) = 6 THEN ofVal(v)
                    ELSE IF Cardinality(ofVal(v)) >= 3 THEN FirstN(ofVal(v), 3)
                    ELSE {}
  IN  UNION {triples(v) : v \in 1..6} \cup ofVal(1) \cup ofVal(5)

computerMove(g, r) ==
  IF g.status = "win" THEN g
  ELSE LET g1 == roll(g, r) IN
       IF g1.status = "farkle" THEN g1
       ELSE recalcKeepScore([g1 EXCEPT !.dice = SetState(g1.dice, aiKeeps(g1.dice), "kept")])

(***************************************************************************)
(* C++ engine.                                                             *)
(***************************************************************************)
recalc_keep_score(g) ==
  [g EXCEPT !.currentKeepScore = evaluate_scoring(g.dice, InState(g.dice, "kept"))]

\* roll() that banks the kept dice without adding current_keep_score
Cpp_roll_dropsSelection(g, r) ==
  LET d1 == SetState(g.dice, InState(g.dice, "kept"), "banked")
      ts1 == g.turnScore
      any_to_roll == InState(d1, "rolled") # {}
      d2 == IF ~any_to_roll THEN SetState(d1, DOMAIN d1, "rolled") ELSE d1
      toRoll == InState(d2, "rolled")
      d3 == SetValues(d2, toRoll, r)
  IN  IF ~has_scoring_potential(d3, toRoll)
      THEN [g EXCEPT !.dice = d3, !.status = "farkle",
                     !.turnScore = 0, !.currentKeepScore = 0]
      ELSE [g EXCEPT !.dice = d3, !.status = "rolling",
                     !.turnScore = ts1, !.currentKeepScore = 0]

\* roll() that draws a new face for every die, banked ones included
Cpp_roll_rollsAll(g, r) ==
  LET d1 == SetState(g.dice, InState(g.dice, "kept"), "banked")
      ts1 == g.turnScore + g.currentKeepScore
      any_to_roll == InState(d1, "rolled") # {}
      d2 == IF ~any_to_roll THEN SetState(d1, DOMAIN d1, "rolled") ELSE d1
      toRoll == InState(d2, "rolled")
      d3 == SetValues(d2, DOMAIN d2, r)
  IN  IF ~has_scoring_potential(d3, toRoll)
      THEN [g EXCEPT !.dice = d3, !.status = "farkle",
                     !.turnScore = 0, !.currentKeepScore = 0]
      ELSE [g EXCEPT !.dice = d3, !.status = "rolling",
                     !.turnScore = ts1, !.currentKeepScore = 0]

Cpp_roll(g, r) ==
  LET d1 == SetState(g.dice, InState(g.dice, "kept"), "banked")
      ts1 == g.turnScore + g.currentKeepScore
      any_to_roll == InState(d1, "rolled") # {}
      d2 == IF ~any_to_roll THEN SetState(d1, DOMAIN d1, "rolled") ELSE d1
      toRoll == InState(d2, "rolled")
      d3 == SetValues(d2, toRoll, r)
  IN  IF ~has_scoring_potential(d3, toRoll)
      THEN [g EXCEPT !.dice = d3, !.status = "farkle",
                     !.turnScore = 0, !.currentKeepScore = 0]
      ELSE [g EXCEPT !.dice = d3, !.status = "rolling",
                     !.turnScore = ts1, !.currentKeepScore = 0]

\* toggle_keep() without the test for a banked die
toggle_keep_anyState(g, die_id) ==
  LET k == FindDie(g.dice, die_id) IN
  IF g.status # "rolling" THEN g
  ELSE IF k = 0 THEN g
  ELSE LET val == g.dice[k].value
           keptOfVal == {i \in InState(g.dice, "kept") : g.dice[i].value = val}
           rolledOfVal == {i \in InState(g.dice, "rolled") : g.dice[i].value = val}
           count_rolled == Cardinality(rolledOfVal)
           count_kept == Cardinality(keptOfVal)
       IN
    IF g.dice[k].state = "kept"
    THEN recalc_keep_score([g EXCEPT !.dice = SetState(g.dice, keptOfVal, "rolled")])
    ELSE IF count_rolled + count_kept >= 3
         THEN IF count_kept < 3
              THEN recalc_keep_score(
                     [g EXCEPT !.dice =
                        SetState(g.dice, FirstN(rolledOfVal, 3 - count_kept), "kept")])
              ELSE recalc_keep_score([g EXCEPT !.dice = SetState(g.dice, {k}, "kept")])
         ELSE IF val = 1 \/ val = 5
         THEN recalc_keep_score([g EXCEPT !.dice = SetState(g.dice, {k}, "kept")])
         ELSE recalc_keep_score(g)

\* toggle_keep() whose promotion takes every rolled die of the value
toggle_keep_promotesAll(g, die_id) ==
  LET k == FindDie(g.dice, die_id) IN
  IF g.status # "rolling" THEN g
  ELSE IF k = 0 \/ g.dice[k].state = "banked" THEN g
  ELSE LET val == g.dice[k].value
           keptOfVal == {i \in InState(g.dice, "kept") : g.dice[i].value = val}
           rolledOfVal == {i \in InState(g.dice, "rolled") : g.dice[i].value = val}
           count_rolled == Cardinality(rolledOfVal)
           count_kept == Cardinality(keptOfVal)
       IN
    IF g.dice[k].state = "kept"
    THEN recalc_keep_score([g EXCEPT !.dice = SetState(g.dice, keptOfVal, "rolled")])
    ELSE IF count_rolled + count_kept >= 3
         THEN IF count_kept < 3
              THEN recalc_keep_score([g EXCEPT !.dice = SetState(g.dice, rolledOfVal, "kept")])
              ELSE recalc_keep_score([g EXCEPT !.dice = SetState(g.dice, {k}, "kept")])
         ELSE IF val = 1 \/ val = 5
         THEN recalc_keep_score([g EXCEPT !.dice = SetState(g.dice, {k}, "kept")])
         ELSE recalc_keep_score(g)

\* toggle_keep() whose deselection turns back only the clicked die
toggle_keep_unkeepOne(g, die_id) ==
  LET k == FindDie(g.dice, die_id) IN
  IF g.status # "rolling" THEN g
  ELSE IF k = 0 \/ g.dice[k].state = "banked" THEN g
  ELSE LET val == g.dice[k].value
           keptOfVal == {i \in InState(g.dice, "kept") : g.dice[i].value = val}
           rolledOfVal == {i \in InState(g.dice, "rolled") : g.dice[i].value = val}
           count_rolled == Cardinality(rolledOfVal)
           count_kept == Cardinality(keptOfVal)
       IN
    IF g.dice[k].state = "kept"
    THEN recalc_keep_score([g EXCEPT !.dice = SetState(g.dice, {k}, "rolled")])
    ELSE IF count_rolled + count_kept >= 3
         THEN IF count_kept < 3
              THEN recalc_keep_score(
                     [g EXCEPT !.dice =
                        SetState(g.dice, FirstN(rolledOfVal, 3 - count_kept), "kept")])
              ELSE recalc_keep_score([g EXCEPT !.dice = SetState(g.dice, {k}, "kept")])
         ELSE IF val = 1 \/ val = 5
         THEN recalc_keep_score([g EXCEPT !.dice = SetState(g.dice, {k}, "kept")])
         ELSE recalc_keep_score(g)

\* promotion takes the first `needed` rolled dice of the value, in array order
toggle_keep(g, die_id) ==
  LET k == FindDie(g.dice, die_id) IN
  IF g.status # "rolling" THEN g
  ELSE IF k = 0 \/ g.dice[k].state = "banked" THEN g
  ELSE LET val == g.dice[k].value
           keptOfVal == {i \in InState(g.dice, "kept") : g.dice[i].value = val}
           rolledOfVal == {i \in InState(g.dice, "rolled") : g.dice[i].value = val}
           count_rolled == Cardinality(rolledOfVal)
           count_kept == Cardinality(keptOfVal)
       IN
    IF g.dice[k].state = "kept"
    THEN recalc_keep_score([g EXCEPT !.dice = SetState(g.dice, keptOfVal, "rolled")])
    ELSE IF count_rolled + count_kept >= 3
         THEN IF count_kept < 3
              THEN recalc_keep_score(
                     [g EXCEPT !.dice =
                        SetState(g.dice, FirstN(rolledOfVal, 3 - count_kept), "kept")])
              ELSE recalc_keep_score([g EXCEPT !.dice = SetState(g.dice, {k}, "kept")])
         ELSE IF val = 1 \/ val = 5
         THEN recalc_keep_score([g EXCEPT !.dice = SetState(g.dice, {k}, "kept")])
         ELSE recalc_keep_score(g)

pass_turn(g, r) ==
  Cpp_roll([g EXCEPT !.turnScore = 0, !.currentKeepScore = 0,
                     !.currentPlayerIndex = (g.currentPlayerIndex + 1) % Len(g.players),
                     !.dice = SetState(g.dice, DOMAIN g.dice, "rolled"),
                     !.status = "rolling"], r)

\* bank() that adds turn_score without folding in current_keep_score
Cpp_bank_dropsKeep(g, r) ==
  IF g.currentKeepScore = 0 /\ g.turnScore = 0 THEN g
  ELSE LET p == g.currentPlayerIndex + 1
           g1 == [g EXCEPT !.currentKeepScore = 0,
                           !.dice = SetState(g.dice, InState(g.dice, "kept"), "banked"),
                           !.players[p] = g.players[p] + g.turnScore]
       IN  IF g1.players[p] >= WinScore
           THEN [g1 EXCEPT !.status = "win"]
           ELSE pass_turn(g1, r)

\* bank() without the zero-pot validation
Cpp_bank_noValidation(g, r) ==
  LET ts1 == g.turnScore + g.currentKeepScore
      p == g.currentPlayerIndex + 1
      g1 == [g EXCEPT !.turnScore = ts1, !.currentKeepScore = 0,
                      !.dice = SetState(g.dice, InState(g.dice, "kept"), "banked"),
                      !.players[p] = g.players[p] + ts1]
  IN  IF g1.players[p] >= WinScore
      THEN [g1 EXCEPT !.status = "win"]
      ELSE pass_turn(g1, r)

Cpp_bank(g, r) ==
  IF g.currentKeepScore = 0 /\ g.turnScore = 0 THEN g
  ELSE LET ts1 == g.turnScore + g.currentKeepScore
           p == g.currentPlayerIndex + 1
           g1 == [g EXCEPT !.turnScore = ts1, !.currentKeepScore = 0,
                           !.dice = SetState(g.dice, InState(g.dice, "kept"), "banked"),
                           !.players[p] = g.players[p] + ts1]
       IN  IF g1.players[p] >= WinScore
           THEN [g1 EXCEPT !.status = "win"]
           ELSE pass_turn(g1, r)

(***************************************************************************)
(* Construction.                                                           *)
(***************************************************************************)
\* TypeScript constructor: createDice() and status rolling, no roll()
constructor(r) ==
  [players |-> [p \in 1..NumPlayers |-> 0], currentPlayerIndex |-> 0,
   dice |-> createDice(r), turnScore |-> 0, currentKeepScore |-> 0,
   status |-> "rolling"]

\* C++ constructor: six dice of value 1, then roll()
FarkleEngine(r) ==
  Cpp_roll([players |-> [p \in 1..NumPlayers |-> 0], currentPlayerIndex |-> 0,
            dice |-> createDice([i \in DieIdx |-> 1]), turnScore |-> 0,
            currentKeepScore |-> 0, status |-> "rolling"], r)

(***************************************************************************)
(* The public operations of the engine a behaviour runs.                   *)
(***************************************************************************)
call_roll(g, r) == IF engine = "ts" THEN roll(g, r) ELSE Cpp_roll(g, r)
call_toggleKeep(g, id) == IF engine = "ts" THEN toggleKeep(g, id) ELSE toggle_keep(g, id)
call_bank(g, r) == IF engine = "ts" THEN bank(g, r) ELSE Cpp_bank(g, r)
call_passTurn(g, r) == IF engine = "ts" THEN passTurn(g, r) ELSE pass_turn(g, r)

\* the die ids a caller passes: 0..5 exist, -1 and 6 do not
DieIds == -1..NumDice

Install(g) ==
  /\ players' = g.players
  /\ currentPlayerIndex' = g.currentPlayerIndex
  /\ dice' = g.dice
  /\ turnScore' = g.turnScore
  /\ currentKeepScore' = g.currentKeepScore
  /\ status' = g.status

\* A behaviour starts at the beginning of player 0's turn in a session in
\* which every player has banked StartTotal units so far: the state the
\* constructor leaves, but for the totals.
SessionStart(e, r) ==
  LET g == IF e = "ts" THEN constructor(r) ELSE FarkleEngine(r)
  IN  [g EXCEPT !.players = [p \in 1..NumPlayers |-> StartTotal * PointUnit]]

Init ==
  \E e \in Engines :
  \E r \in Outcomes(e) :
    /\ engine = e
    /\ players = SessionStart(e, r).players
    /\ currentPlayerIndex = SessionStart(e, r).currentPlayerIndex
    /\ dice = SessionStart(e, r).dice
    /\ turnScore = SessionStart(e, r).turnScore
    /\ currentKeepScore = SessionStart(e, r).currentKeepScore
    /\ status = SessionStart(e, r).status
    /\ lastOp = "new"
    /\ pre = Untracked
    /\ arg = NoArg
    /\ aiPc = "idle"

\* one public call: the engine state becomes g; lastOp records which call it was
Call(op, g) ==
  /\ Install(g)
  /\ lastOp' = op
  /\ UNCHANGED <<engine, pre, arg, aiPc>>

Roll ==
  /\ turnScore + currentKeepScore <= MaxPot * PointUnit
  /\ \E r \in Outcomes(engine) : Call("roll", call_roll(Game, r))

ToggleKeep ==
  \E id \in DieIds : Call("toggleKeep", call_toggleKeep(Game, id))

Bank ==
  /\ players[currentPlayerIndex + 1] + turnScore + currentKeepScore
        <= MaxTotal * PointUnit
  /\ \E r \in Outcomes(engine) : Call("bank", call_bank(Game, r))

PassTurn ==
  \E r \in Outcomes(engine) : Call("passTurn", call_passTurn(Game, r))

ComputerMove ==
  /\ engine = "ts"
  /\ turnScore + currentKeepScore <= MaxPot * PointUnit
  /\ \E r \in Outcomes(engine) : Call("computerMove", computerMove(Game, r))

Next == Roll \/ ToggleKeep \/ Bank \/ PassTurn \/ ComputerMove

Spec == Init /\ [][Next]_vars

(***************************************************************************)
(* One turn of a freshly constructed session, with a wider random source   *)
(* and with the state and the argument of the last call recorded.          *)
(***************************************************************************)
TurnOutcomes ==
  { <<1,1,1,1,5,2>>, <<2,2,2,2,2,2>>, <<2,2,2,3,3,3>>, <<2,3,4,6,2,3>>,
    <<5,5,6,5,5,1>> }

TurnZeroOutcomes == { <<0,0,0,3,4,6>> }

OutcomesTurn(e) ==
  IF e = "ts" THEN TurnOutcomes \cup TurnZeroOutcomes ELSE TurnOutcomes

construct(e, r) == IF e = "ts" THEN constructor(r) ELSE FarkleEngine(r)

InitTurn ==
  \E e \in Engines :
  \E r \in OutcomesTurn(e) :
    /\ engine = e
    /\ players = construct(e, r).players
    /\ currentPlayerIndex = construct(e, r).currentPlayerIndex
    /\ dice = construct(e, r).dice
    /\ turnScore = construct(e, r).turnScore
    /\ currentKeepScore = construct(e, r).currentKeepScore
    /\ status = construct(e, r).status
    /\ lastOp = "new"
    /\ pre = Untracked
    /\ arg = NoArg
    /\ aiPc = "idle"

\* one public call, recorded: pre is the state it was made in, a the die id
Track(op, a, g) ==
  /\ Install(g)
  /\ lastOp' = op
  /\ pre' = Game
  /\ arg' = a
  /\ UNCHANGED <<engine, aiPc>>

TurnRoll ==
  /\ turnScore + currentKeepScore <= TurnMaxPot * PointUnit
  /\ \E r \in OutcomesTurn(engine) : Track("roll", NoArg, call_roll(Game, r))

TurnToggleKeep ==
  \E id \in DieIds : Track("toggleKeep", id, call_toggleKeep(Game, id))

TurnComputerMove ==
  /\ engine = "ts"
  /\ turnScore + currentKeepScore <= TurnMaxPot * PointUnit
  /\ \E r \in OutcomesTurn(engine) : Track("computerMove", NoArg, computerMove(Game, r))

NextTurn == TurnRoll \/ TurnToggleKeep \/ TurnComputerMove

SpecTurn == InitTurn /\ [][NextTurn]_vars

(***************************************************************************)
(* Properties.  An operation's effect is stated over every reachable state *)
(* it can be called in and every input: call_op(Game, input) is the state  *)
(* the call returns.                                                       *)
(***************************************************************************)
Pot == turnScore + currentKeepScore
Cur == currentPlayerIndex + 1
Start == StartTotal * PointUnit

\* C1: the pool always holds exactly six dice with the distinct ids 0..5,
\* each in exactly one of the states rolled, kept, banked, so the three
\* counts add up to 6.
C1_PoolOfSix ==
  /\ Len(dice) = NumDice
  /\ \A i \in DOMAIN dice : dice[i].id = i - 1
  /\ {dice[i].id : i \in DOMAIN dice} = 0..(NumDice - 1)
  /\ \A i \in DOMAIN dice : dice[i].state \in DieStates
  /\ Cardinality(InState(dice, "rolled")) + Cardinality(InState(dice, "kept"))
       + Cardinality(InState(dice, "banked")) = NumDice

\* a state after some calls in which all three die states occur
C1_Witness ==
  /\ lastOp # "new"
  /\ InState(dice, "rolled") # {}
  /\ InState(dice, "kept") # {}
  /\ InState(dice, "banked") # {}

\* C2: currentKeepScore always equals the engine's scoring evaluator applied
\* to the faces of exactly the kept dice (0 when no die is kept).
C2_KeepScoreIsEvaluator ==
  currentKeepScore =
    IF engine = "ts" THEN evaluateScoring(dice, InState(dice, "kept"))
    ELSE evaluate_scoring(dice, InState(dice, "kept"))

\* a roll that committed a selection: points in turnScore, banked dice, no
\* kept die, currentKeepScore back at 0
C2_Witness ==
  /\ lastOp = "roll"
  /\ turnScore > 0
  /\ InState(dice, "banked") # {}
  /\ InState(dice, "kept") = {}
  /\ currentKeepScore = 0

\* the dice a roll() call rolls: those in state rolled, all six when none is
RolledBy(ds) ==
  IF InState(ds, "rolled") = {} THEN DOMAIN ds ELSE InState(ds, "rolled")

\* no 1, no 5 and no face three or more times among the dice at S
NoScoringFace(ds, S) ==
  /\ \A i \in S : ds[i].value # 1 /\ ds[i].value # 5
  /\ \A i \in S : Cardinality({j \in S : ds[j].value = ds[i].value}) < 3

\* C3: after any roll(), status is farkle exactly when the dice rolled by
\* that call show no 1, no 5 and no face three or more times (banked dice
\* do not count); then turnScore = currentKeepScore = 0; otherwise status
\* is rolling.
C3_FarkleIffNoPotential ==
  \A r \in Outcomes(engine) :
    LET g2 == call_roll(Game, r)
        S == RolledBy(dice)
    IN  /\ g2.status = "farkle" <=> NoScoringFace(g2.dice, S)
        /\ g2.status = "farkle" => g2.turnScore = 0 /\ g2.currentKeepScore = 0
        /\ g2.status # "farkle" => g2.status = "rolling"

\* a roll that ended in farkle although a banked die shows 1
C3_Witness ==
  /\ lastOp = "roll"
  /\ status = "farkle"
  /\ turnScore = 0
  /\ \E i \in InState(dice, "banked") : dice[i].value = 1

\* C4: once status is win, no roll(), toggleKeep(), bank() or passTurn()
\* call changes status, any player's total or currentPlayerIndex.
C4_WinIsTerminal ==
  status = "win" =>
    \A r \in Outcomes(engine), id \in DieIds :
      \A g2 \in {call_roll(Game, r), call_toggleKeep(Game, id),
                 call_bank(Game, r), call_passTurn(Game, r)} :
        /\ g2.status = "win"
        /\ g2.players = players
        /\ g2.currentPlayerIndex = currentPlayerIndex

\* C5: in status farkle the pot is 0, and no roll(), toggleKeep() or bank()
\* call changes the status, the dice or any score.
C5_FarkleIsTerminalForTurn ==
  status = "farkle" =>
    /\ turnScore = 0 /\ currentKeepScore = 0
    /\ \A r \in Outcomes(engine), id \in DieIds :
         \A g2 \in {call_roll(Game, r), call_toggleKeep(Game, id),
                    call_bank(Game, r)} :
           g2 = Game

\* C6: a bank() that brings the current player's total to 10000 or more
\* sets status win and does no turn progression (same current player, no
\* die reset or re-rolled, the pot not cleared); a bank() that leaves the
\* total below 10000 does not set status win.
C6_BankWinStopsTheGame ==
  \A r \in Outcomes(engine) :
    LET g2 == call_bank(Game, r) IN
    Pot > 0 =>
      /\ players[Cur] + Pot >= WinScore =>
           /\ g2.status = "win"
           /\ g2.currentPlayerIndex = currentPlayerIndex
           /\ g2.turnScore = Pot
           /\ \A i \in DOMAIN dice :
                /\ g2.dice[i].id = dice[i].id
                /\ g2.dice[i].value = dice[i].value
                /\ g2.dice[i].state =
                     IF dice[i].state = "kept" THEN "banked" ELSE dice[i].state
      /\ players[Cur] + Pot < WinScore => g2.status # "win"

\* a bank() has just won the game
C6_Witness ==
  /\ lastOp = "bank"
  /\ status = "win"
  /\ players[Cur] >= WinScore
  /\ InState(dice, "banked") # {}

\* C7: a bank() with a non-zero pot adds exactly turnScore + currentKeepScore
\* to the current player's total and leaves the other totals alone; no die
\* stays kept (on a win the kept dice are banked); below 10000 the turn goes
\* to player (currentPlayerIndex + 1) mod playerCount with the accumulators
\* cleared and all dice rolled.
C7_BankAddsThePot ==
  \A r \in Outcomes(engine) :
    LET g2 == call_bank(Game, r) IN
    Pot > 0 =>
      /\ g2.players[Cur] = players[Cur] + Pot
      /\ \A q \in DOMAIN players : q # Cur => g2.players[q] = players[q]
      /\ InState(g2.dice, "kept") = {}
      /\ players[Cur] + Pot >= WinScore =>
           \A i \in InState(dice, "kept") : g2.dice[i].state = "banked"
      /\ players[Cur] + Pot < WinScore =>
           /\ g2.currentPlayerIndex = (currentPlayerIndex + 1) % Len(players)
           /\ g2.turnScore = 0 /\ g2.currentKeepScore = 0
           /\ InState(g2.dice, "rolled") = DOMAIN dice

\* the last player has banked below 10000 and the turn wrapped to player 0
C7_Witness ==
  /\ lastOp = "bank"
  /\ status # "win"
  /\ currentPlayerIndex = 0
  /\ players[NumPlayers] > Start
  /\ players[NumPlayers] < WinScore

\* C8: totals are never negative, no call lowers one, and roll(),
\* toggleKeep(), passTurn() (and computerMove()) leave all of them unchanged.
C8_TotalsOnlyGrowInBank ==
  /\ \A p \in DOMAIN players : players[p] >= 0
  /\ \A id \in DieIds : call_toggleKeep(Game, id).players = players
  /\ \A r \in Outcomes(engine) :
       /\ call_roll(Game, r).players = players
       /\ call_passTurn(Game, r).players = players
       /\ engine = "ts" => computerMove(Game, r).players = players
       /\ \A p \in DOMAIN players : call_bank(Game, r).players[p] >= players[p]

\* a turn was passed after somebody had banked
C8_Witness ==
  /\ lastOp = "passTurn"
  /\ \E p \in DOMAIN players : players[p] > Start
  /\ \E p \in DOMAIN players : players[p] = Start

\* C9: bank() with turnScore = 0 and currentKeepScore = 0 changes nothing.
C9_BankZeroPotNoOp ==
  (turnScore = 0 /\ currentKeepScore = 0) =>
    \A r \in Outcomes(engine) : call_bank(Game, r) = Game

\* bank() was called in status farkle and the state is as it was (a bank()
\* of the TypeScript engine that acts ends in status win or rolling)
C9_Witness ==
  /\ engine = "ts"
  /\ lastOp = "bank"
  /\ status = "farkle"
  /\ turnScore = 0 /\ currentKeepScore = 0

\* the cases in which toggleKeep(id) must have no effect
C10_NoEffectCase(id) ==
  \/ status # "rolling"
  \/ ~ \E i \in DOMAIN dice : dice[i].id = id
  \/ \E i \in DOMAIN dice :
       /\ dice[i].id = id
       /\ \/ dice[i].state = "banked"
          \/ /\ dice[i].state = "rolled"
             /\ dice[i].value \in {2, 3, 4, 6}
             /\ Cardinality({j \in DOMAIN dice :
                               /\ dice[j].value = dice[i].value
                               /\ dice[j].state \in {"rolled", "kept"}}) < 3

\* C10: toggleKeep(id) leaves the whole state unchanged when status is not
\* rolling, or id is no die's id, or the die is banked, or the die is rolled
\* with a face 2, 3, 4 or 6 that fewer than three rolled or kept dice show.
C10_ToggleKeepNoOps ==
  \A id \in DieIds : C10_NoEffectCase(id) => call_toggleKeep(Game, id) = Game

\* toggleKeep() was called in status farkle while dice are banked
C10_Witness ==
  /\ lastOp = "toggleKeep"
  /\ status = "farkle"
  /\ InState(dice, "banked") # {}

(***************************************************************************)
(* The scoring evaluator on its own: the faces are drawn at the start, the *)
(* dice 1..n are kept, and the one action scores the kept dice, as         *)
(* recalcKeepScore() / recalc_keep_score() do (the only callers).          *)
(***************************************************************************)
Faces == 1..6

\* the non-decreasing face tuples: one per multiset of six faces
SortedFaces ==
  {f \in [DieIdx -> Faces] : \A i \in 1..(NumDice - 1) : f[i] <= f[i + 1]}

\* six dice showing f of which the first n are kept
PoolOf(f, n) ==
  [i \in DieIdx |->
     [id |-> i - 1, value |-> f[i], state |-> IF i <= n THEN "kept" ELSE "rolled"]]

InitEval ==
  \E e \in Engines :
  \E f \in SortedFaces :
  \E n \in 0..NumDice :
    /\ engine = e
    /\ players = [p \in 1..NumPlayers |-> 0]
    /\ currentPlayerIndex = 0
    /\ dice = PoolOf(f, n)
    /\ turnScore = 0
    /\ currentKeepScore = 0
    /\ status = "rolling"
    /\ lastOp = "new"
    /\ pre = Untracked
    /\ arg = NoArg
    /\ aiPc = "idle"

call_recalcKeepScore(g) ==
  IF engine = "ts" THEN recalcKeepScore(g) ELSE recalc_keep_score(g)

Evaluate ==
  /\ lastOp = "new"
  /\ Call("recalcKeepScore", call_recalcKeepScore(Game))

NextEval == Evaluate

SpecEval == InitEval /\ [][NextEval]_vars

\* C16: passTurn() clears turnScore and currentKeepScore, moves to player
\* (currentPlayerIndex + 1) mod playerCount, leaves all six dice rolled, and
\* has performed the new player's opening roll when it returns: status is
\* farkle when the six new faces hold no 1, no 5 and no triple, and rolling
\* otherwise.
C16_PassTurnRollsOpening ==
  \A r \in Outcomes(engine) :
    LET g2 == call_passTurn(Game, r) IN
      /\ g2.players = players
      /\ g2.currentPlayerIndex = (currentPlayerIndex + 1) % Len(players)
      /\ g2.turnScore = 0 /\ g2.currentKeepScore = 0
      /\ InState(g2.dice, "rolled") = DOMAIN dice
      /\ \A i \in DOMAIN dice : g2.dice[i].value = r[i]
      /\ g2.status = IF NoScoringFace(g2.dice, DOMAIN dice) THEN "farkle" ELSE "rolling"

\* C19: in every reachable state every die's face is an integer in 1..6.
C19_FacesInRange ==
  \A i \in DOMAIN dice : dice[i].value \in 1..6

\* C21: when a die is still rolled after the commit step, roll() leaves
\* every die that is then banked (banked before, or kept and committed)
\* banked with its face, and draws new faces for the rolled dice only; in
\* every case roll() leaves all totals and currentPlayerIndex unchanged.
C21_RollFrame ==
  \A r \in Outcomes(engine) :
    LET g2 == call_roll(Game, r) IN
      /\ InState(dice, "rolled") # {} =>
           \A i \in DOMAIN dice :
             /\ g2.dice[i].id = dice[i].id
             /\ dice[i].state \in {"kept", "banked"} =>
                  /\ g2.dice[i].state = "banked"
                  /\ g2.dice[i].value = dice[i].value
             /\ dice[i].state = "rolled" =>
                  /\ g2.dice[i].state = "rolled"
                  /\ g2.dice[i].value = r[i]
      /\ g2.players = players
      /\ g2.currentPlayerIndex = currentPlayerIndex

\* the second player has rolled with dice banked, after the first banked points
C21_Witness ==
  /\ lastOp = "roll"
  /\ currentPlayerIndex = 1
  /\ players[1] > Start
  /\ InState(dice, "banked") # {}
  /\ InState(dice, "rolled") # {}
  /\ \E i \in InState(dice, "banked"), j \in InState(dice, "rolled") :
       dice[i].value # dice[j].value

(***************************************************************************)
(* The page (ZehntausendGame) driving one TypeScript engine: player 0 is   *)
(* the human, player 1 the computer.  Every handler calls the engine and   *)
(* then refresh(); the effects run after the render that follows.  A       *)
(* behaviour is one session: handleRestart (a new engine after a win) is   *)
(* not part of it.                                                         *)
(*   aiPc = "idle"     no playTurn() is running                            *)
(*          "wait1"    playTurn() waits 1000 ms before computerMove()      *)
(*          "waitPass" playTurn() waits 2000 ms before passTurn()          *)
(*          "waitBank" playTurn() waits 1500 ms before bank()              *)
(***************************************************************************)
\* the ids of the dice the page renders
RenderedIds == 0..(NumDice - 1)

\* the AI loop effect, which depends on currentPlayerIndex alone: after a
\* render that changed it to 1 with status not win, playTurn() starts
AfterRender(g, pc) ==
  IF /\ g.currentPlayerIndex # currentPlayerIndex
     /\ g.currentPlayerIndex = 1
     /\ g.status # "win"
  THEN "wait1" ELSE pc

InitUI ==
  \E r \in Outcomes("ts") :
    /\ engine = "ts"
    /\ players = SessionStart("ts", r).players
    /\ currentPlayerIndex = SessionStart("ts", r).currentPlayerIndex
    /\ dice = SessionStart("ts", r).dice
    /\ turnScore = SessionStart("ts", r).turnScore
    /\ currentKeepScore = SessionStart("ts", r).currentKeepScore
    /\ status = SessionStart("ts", r).status
    /\ lastOp = "new"
    /\ pre = Untracked
    /\ arg = NoArg
    /\ aiPc = "idle"

\* an engine call followed by refresh(): pc is where playTurn() stands next
UICall(op, g, pc) ==
  /\ Install(g)
  /\ lastOp' = op
  /\ aiPc' = AfterRender(g, pc)
  /\ UNCHANGED <<engine, pre, arg>>

\* the Roll button: shown on the human's turn while the game is not won,
\* disabled in status farkle
handleRoll ==
  /\ currentPlayerIndex = 0
  /\ status # "win" /\ status # "farkle"
  /\ turnScore + currentKeepScore <= MaxPot * PointUnit
  /\ \E r \in Outcomes(engine) : UICall("roll", roll(Game, r), aiPc)

\* a click on a die: every die is clickable at any time
handleKeep ==
  \E id \in RenderedIds : UICall("toggleKeep", toggleKeep(Game, id), aiPc)

\* the Bank button: shown on the human's turn while the game is not won,
\* disabled while the pot is 0
handleBank ==
  /\ currentPlayerIndex = 0
  /\ status # "win"
  /\ ~(currentKeepScore = 0 /\ turnScore = 0)
  /\ \E r \in Outcomes(engine) : UICall("bank", bank(Game, r), aiPc)

\* the human's auto-pass timer (3000 ms), armed while it is the human's
\* turn and status is farkle
autoPass ==
  /\ currentPlayerIndex = 0
  /\ status = "farkle"
  /\ \E r \in Outcomes(engine) : UICall("passTurn", passTurn(Game, r), aiPc)

\* playTurn() after its first delay: computerMove(), then the branch on status
playTurnMove ==
  /\ aiPc = "wait1"
  /\ \E r \in Outcomes(engine) :
       UICall("computerMove", computerMove(Game, r),
              IF computerMove(Game, r).status = "farkle" THEN "waitPass"
              ELSE "waitBank")

\* playTurn() after the Farkle delay: passTurn(), and playTurn() is over
playTurnPass ==
  /\ aiPc = "waitPass"
  /\ \E r \in Outcomes(engine) : UICall("passTurn", passTurn(Game, r), "idle")

\* playTurn() after the success delay: bank(), and playTurn() is over
playTurnBank ==
  /\ aiPc = "waitBank"
  /\ \E r \in Outcomes(engine) : UICall("bank", bank(Game, r), "idle")

NextUI ==
  \/ handleRoll \/ handleKeep \/ handleBank \/ autoPass
  \/ playTurnMove \/ playTurnPass \/ playTurnBank

\* a timer that is pending fires; the human may stop clicking
SpecUI ==
  /\ InitUI /\ [][NextUI]_vars
  /\ WF_vars(autoPass) /\ WF_vars(playTurnMove)
  /\ WF_vars(playTurnPass) /\ WF_vars(playTurnBank)

(***************************************************************************)
(* Properties of one turn (SpecTurn).                                      *)
(***************************************************************************)
\* the engine's scoring evaluator on the kept dice of ds
KeptScore(ds) ==
  IF engine = "ts" THEN evaluateScoring(ds, InState(ds, "kept"))
  ELSE evaluate_scoring(ds, InState(ds, "kept"))

\* the dice of ds that show v and are in state st
OfValIn(ds, v, st) == {i \in DOMAIN ds : ds[i].value = v /\ ds[i].state = st}

\* ds2 is ds with exactly the dice at S moved to state st
MovedTo(ds, ds2, S, st) ==
  /\ DOMAIN ds2 = DOMAIN ds
  /\ \A i \in DOMAIN ds :
       /\ ds2[i].id = ds[i].id
       /\ ds2[i].value = ds[i].value
       /\ ds2[i].state = IF i \in S THEN st ELSE ds[i].state

\* g2 differs from the current state in the dice and currentKeepScore only
OnlySelectionChanged(g2) ==
  /\ g2.players = players
  /\ g2.currentPlayerIndex = currentPlayerIndex
  /\ g2.turnScore = turnScore
  /\ g2.status = status

\* C11: toggleKeep(id) on a kept die in status rolling turns that die and
\* every other kept die of the same face back to rolled, leaves the dice of
\* other faces and all banked dice as they are, and leaves currentKeepScore
\* equal to the score of the dice still kept.
C11_UnkeepGroup ==
  \A id \in DieIds :
    LET k == FindDie(dice, id)
        g2 == call_toggleKeep(Game, id)
    IN  (status = "rolling" /\ k # 0 /\ dice[k].state = "kept") =>
          /\ MovedTo(dice, g2.dice, OfValIn(dice, dice[k].value, "kept"), "rolled")
          /\ g2.currentKeepScore = KeptScore(g2.dice)
          /\ OnlySelectionChanged(g2)

\* a click on a kept die of a kept triple has put the whole triple back
\* while a die of another face stays kept
C11_Witness ==
  /\ lastOp = "toggleKeep"
  /\ FindDie(pre.dice, arg) # 0
  /\ LET k == FindDie(pre.dice, arg) IN
       /\ pre.dice[k].state = "kept"
       /\ Cardinality(OfValIn(pre.dice, pre.dice[k].value, "kept")) >= 3
       /\ OfValIn(dice, dice[k].value, "kept") = {}
  /\ InState(dice, "kept") # {}
  /\ currentKeepScore > 0


\* the dice of ds that show v and are rolled or kept
Available(ds, v) == OfValIn(ds, v, "rolled") \cup OfValIn(ds, v, "kept")

\* C12: toggleKeep(id) on a rolled die in status rolling whose face v is
\* shown by three or more rolled or kept dice, fewer than three of them
\* kept, ends with exactly three dice of face v kept: only rolled dice of
\* face v change, and only to kept; every other die is unchanged.
C12_PromoteToThree ==
  \A id \in DieIds :
    LET k == FindDie(dice, id)
        g2 == call_toggleKeep(Game, id)
    IN  (/\ status = "rolling" /\ k # 0 /\ dice[k].state = "rolled"
         /\ Cardinality(Available(dice, dice[k].value)) >= 3
         /\ Cardinality(OfValIn(dice, dice[k].value, "kept")) < 3) =>
          /\ Cardinality(OfValIn(g2.dice, dice[k].value, "kept")) = 3
          /\ \E S \in SUBSET OfValIn(dice, dice[k].value, "rolled") :
               MovedTo(dice, g2.dice, S, "kept")
          /\ OnlySelectionChanged(g2)

\* a click on one of four or more rolled dice of a face has kept three
C12_Witness ==
  /\ lastOp = "toggleKeep"
  /\ FindDie(pre.dice, arg) # 0
  /\ pre.status = "rolling"
  /\ LET k == FindDie(pre.dice, arg) IN
       /\ pre.dice[k].state = "rolled"
       /\ Cardinality(OfValIn(pre.dice, pre.dice[k].value, "rolled")) >= 4
       /\ OfValIn(pre.dice, pre.dice[k].value, "kept") = {}
       /\ Cardinality(OfValIn(dice, dice[k].value, "kept")) = 3
       /\ OfValIn(dice, dice[k].value, "rolled") # {}


\* C13: toggleKeep(id) on a rolled die in status rolling whose face already
\* has three or more kept dice marks exactly the clicked die kept as well,
\* for every face 1..6.
C13_AddToKeptTriple ==
  \A id \in DieIds :
    LET k == FindDie(dice, id)
        g2 == call_toggleKeep(Game, id)
    IN  (/\ status = "rolling" /\ k # 0 /\ dice[k].state = "rolled"
         /\ dice[k].value \in 1..6
         /\ Cardinality(OfValIn(dice, dice[k].value, "kept")) >= 3) =>
          MovedTo(dice, g2.dice, {k}, "kept")


(***************************************************************************)
(* Properties of the scoring evaluator (SpecEval).                         *)
(***************************************************************************)
\* how many kept dice show v
KeptOf(v) == Cardinality(OfValIn(dice, v, "kept"))

\* the score of a triple of v
TripleBase(v) == IF v = 1 THEN 1000 ELSE v * 100

\* the score of one v outside a triple
SingleScore(v) == IF v = 1 THEN 100 ELSE IF v = 5 THEN 50 ELSE 0

\* c dice of face v under the doubling rule
DoublingScore(v, c) ==
  IF c >= 3 THEN TripleBase(v) * Pow2(c - 3) ELSE c * SingleScore(v)

\* C14: for every multiset of 0 to 6 faces in 1..6 the evaluator scores a
\* face shown c >= 3 times as base * 2^(c-3), base 1000 for ones and
\* face * 100 otherwise; so [1,1,1,1] scores 2000.
C14_DoublingRule ==
  lastOp = "recalcKeepScore" =>
    currentKeepScore =
      DoublingScore(1, KeptOf(1)) + DoublingScore(2, KeptOf(2))
        + DoublingScore(3, KeptOf(3)) + DoublingScore(4, KeptOf(4))
        + DoublingScore(5, KeptOf(5)) + DoublingScore(6, KeptOf(6))

\* the engine's evaluator on the kept dice that show v
FaceScore(v) ==
  IF engine = "ts" THEN evaluateScoring(dice, OfValIn(dice, v, "kept"))
  ELSE evaluate_scoring(dice, OfValIn(dice, v, "kept"))

\* c <= 3 dice of face v: a triple, or singles
BasicScore(v, c) == IF c = 3 THEN TripleBase(v) ELSE c * SingleScore(v)

\* C15: the evaluator is total and non-negative on every multiset of 0 to 6
\* faces in 1..6; the empty multiset scores 0; the total is the sum over
\* the faces; and where no face is shown more than three times a triple of
\* ones scores 1000, a triple of v scores v * 100, every other one scores
\* 100, every other five 50, and twos, threes, fours and sixes score 0.
C15_BasicScores ==
  lastOp = "recalcKeepScore" =>
    /\ currentKeepScore \in Nat
    /\ InState(dice, "kept") = {} => currentKeepScore = 0
    /\ currentKeepScore =
         FaceScore(1) + FaceScore(2) + FaceScore(3)
           + FaceScore(4) + FaceScore(5) + FaceScore(6)
    /\ (\A v \in Faces : KeptOf(v) <= 3) =>
         currentKeepScore =
           BasicScore(1, KeptOf(1)) + BasicScore(2, KeptOf(2))
             + BasicScore(3, KeptOf(3)) + BasicScore(4, KeptOf(4))
             + BasicScore(5, KeptOf(5)) + BasicScore(6, KeptOf(6))

\* the kept dice 1,1,1,5,5,6 have been scored: 1000 + 50 + 50 + 0
C15_Witness ==
  /\ lastOp = "recalcKeepScore"
  /\ KeptOf(1) = 3 /\ KeptOf(5) = 2 /\ KeptOf(6) = 1
  /\ currentKeepScore = 1100


\* C17: construction yields totals 0, currentPlayerIndex 0, six dice,
\* turnScore = currentKeepScore = 0, with the opening roll already
\* performed: all six dice rolled and status farkle when the six opening
\* faces hold no 1, no 5 and no triple, rolling otherwise.
C17_ConstructionRollsOpening ==
  lastOp = "new" =>
    /\ \A p \in DOMAIN players : players[p] = 0
    /\ Len(players) = NumPlayers
    /\ currentPlayerIndex = 0
    /\ Len(dice) = NumDice
    /\ InState(dice, "rolled") = DOMAIN dice
    /\ turnScore = 0 /\ currentKeepScore = 0
    /\ status = IF NoScoringFace(dice, DOMAIN dice) THEN "farkle" ELSE "rolling"


\* C18: a roll() called when no die is rolled (every die kept or banked)
\* resets all six dice to rolled and rolls all six, and turnScore holds the
\* committed amount unless the new roll is a Farkle; a roll() called with
\* rolled dice rolls exactly those; so after every roll() at least one die
\* is rolled and none is kept.
C18_HotHand ==
  \A r \in OutcomesTurn(engine) :
    LET g2 == call_roll(Game, r)
        hot == InState(dice, "rolled") = {}
    IN  /\ hot =>
             /\ InState(g2.dice, "rolled") = DOMAIN dice
             /\ \A i \in DOMAIN dice : g2.dice[i].value = r[i]
             /\ g2.status # "farkle" => g2.turnScore = turnScore + currentKeepScore
        /\ ~hot =>
             /\ InState(g2.dice, "rolled") = InState(dice, "rolled")
             /\ \A i \in DOMAIN dice :
                  g2.dice[i].value = IF dice[i].state = "rolled" THEN r[i]
                                     ELSE dice[i].value
        /\ InState(g2.dice, "rolled") # {}
        /\ InState(g2.dice, "kept") = {}

\* a roll() made with all six dice kept or banked has rolled all six and
\* carried the pot on
C18_Witness ==
  /\ lastOp = "roll"
  /\ InState(pre.dice, "rolled") = {}
  /\ InState(pre.dice, "kept") # {}
  /\ InState(dice, "rolled") = DOMAIN dice
  /\ status = "rolling"
  /\ turnScore = pre.turnScore + pre.currentKeepScore
  /\ turnScore > 0


\* C20: roll() first commits the selection: every kept die becomes banked
\* (and is put back to rolled with all others when no rolled die is left);
\* currentKeepScore is 0 afterwards, and unless the roll is a Farkle
\* turnScore is the old turnScore + the old currentKeepScore.  The points
\* of a selection are counted once: bank() right after the roll credits
\* what bank() instead of the roll would have credited.
C20_RollCommitsSelection ==
  \A r \in OutcomesTurn(engine) :
    LET g2 == call_roll(Game, r)
        hot == InState(dice, "rolled") = {}
    IN  /\ \A i \in InState(dice, "kept") :
             g2.dice[i].state = IF hot THEN "rolled" ELSE "banked"
        /\ g2.currentKeepScore = 0
        /\ g2.status # "farkle" =>
             /\ g2.turnScore = turnScore + currentKeepScore
             /\ \A r2 \in OutcomesTurn(engine) :
                  call_bank(g2, r2).players[Cur] = players[Cur] + Pot
        /\ call_bank(Game, r).players[Cur] = players[Cur] + Pot

\* a roll() has committed a selection on top of points committed earlier
C20_Witness ==
  /\ lastOp = "roll"
  /\ pre.turnScore > 0
  /\ pre.currentKeepScore > 0
  /\ status = "rolling"
  /\ turnScore = pre.turnScore + pre.currentKeepScore
  /\ currentKeepScore = 0
  /\ \A i \in InState(pre.dice, "kept") : dice[i].state = "banked"


\* the other engine's scoring evaluator on the kept dice
OtherKeptScore ==
  IF engine = "ts" THEN evaluate_scoring(dice, InState(dice, "kept"))
  ELSE evaluateScoring(dice, InState(dice, "kept"))

\* C22: evaluateScoring (TypeScript) and evaluate_scoring (C++) return the
\* same score for every multiset of 0 to 6 faces in which no face occurs
\* four or more times, and different scores for every multiset in which
\* some face does.
C22_EvaluatorsAgreeBelowFour ==
  lastOp = "recalcKeepScore" =>
    IF \A v \in Faces : KeptOf(v) <= 3
    THEN currentKeepScore = OtherKeptScore
    ELSE currentKeepScore # OtherKeptScore

\* four 2s and a 5 scored by the TypeScript evaluator: 250, where the C++
\* evaluator gives 450
C22_Witness ==
  /\ lastOp = "recalcKeepScore"
  /\ engine = "ts"
  /\ KeptOf(2) = 4 /\ KeptOf(5) = 1 /\ Cardinality(InState(dice, "kept")) = 5
  /\ currentKeepScore = 250
  /\ OtherKeptScore = 450


\* C23: computerMove() called while the game is not won performs one
\* roll() and nothing else but keeping: totals, currentPlayerIndex, the
\* status and turnScore are those roll() leaves and no die but a rolled one
\* changes state; after a Farkle nothing is kept; with status rolling no
\* rolled die shows 1 or 5, no face is shown by three or more rolled dice,
\* and currentKeepScore is positive and the score of the kept dice.
C23_ComputerKeepsAllScoring ==
  engine = "ts" =>
    \A r \in OutcomesTurn(engine) :
      LET g1 == roll(Game, r)
          g2 == computerMove(Game, r)
      IN  status # "win" =>
            /\ g2.players = players
            /\ g2.currentPlayerIndex = currentPlayerIndex
            /\ g2.status = g1.status
            /\ g2.turnScore = g1.turnScore
            /\ \E S \in SUBSET InState(g1.dice, "rolled") :
                 MovedTo(g1.dice, g2.dice, S, "kept")
            /\ g2.status = "farkle" => InState(g2.dice, "kept") = {}
            /\ g2.status = "rolling" =>
                 /\ \A i \in InState(g2.dice, "rolled") :
                      /\ g2.dice[i].value \notin {1, 5}
                      /\ Cardinality(OfValIn(g2.dice, g2.dice[i].value, "rolled")) < 3
                 /\ g2.currentKeepScore > 0
                 /\ g2.currentKeepScore =
                      evaluateScoring(g2.dice, InState(g2.dice, "kept"))


\* C25: for each face v in {2, 3, 4, 6} the number of kept dice showing v
\* is 0 or at least 3, and whenever a die is kept currentKeepScore > 0.
C25_NoWorthlessKeep ==
  /\ \A v \in {2, 3, 4, 6} :
       OfValIn(dice, v, "kept") = {} \/ Cardinality(OfValIn(dice, v, "kept")) >= 3
  /\ InState(dice, "kept") # {} => currentKeepScore > 0

\* C26: whenever toggleKeep(id) on a rolled die changes any die's state, the
\* clicked die itself is kept afterwards.
C26_ClickedDieIsKept ==
  \A id \in DieIds :
    LET k == FindDie(dice, id)
        g2 == call_toggleKeep(Game, id)
    IN  (/\ k # 0 /\ dice[k].state = "rolled"
         /\ \E i \in DOMAIN dice : g2.dice[i].state # dice[i].state) =>
          g2.dice[k].state = "kept"

\* toggleKeep(id) called twice in a row gives back the dice and currentKeepScore
TwiceRestores(id) ==
  LET g3 == call_toggleKeep(call_toggleKeep(Game, id), id)
  IN  g3.dice = dice /\ g3.currentKeepScore = currentKeepScore

\* C27 as stated: in status rolling, toggleKeep(id) twice in a row on the
\* same die that is not banked restores every die's state and
\* currentKeepScore.
C27_ToggleKeepInvolution ==
  \A id \in DieIds :
    LET k == FindDie(dice, id) IN
      (status = "rolling" /\ k # 0 /\ dice[k].state # "banked") => TwiceRestores(id)

\* C27 as amended: in status rolling, toggleKeep(id) twice in a row on the
\* same rolled die restores every die's state and currentKeepScore when no
\* die of its face is kept and the die is one of the first three rolled
\* dice of its face in pool order.
C27_ToggleTwiceRestores ==
  \A id \in DieIds :
    LET k == FindDie(dice, id) IN
      (/\ status = "rolling" /\ k # 0 /\ dice[k].state = "rolled"
       /\ OfValIn(dice, dice[k].value, "kept") = {}
       /\ k \in FirstN(OfValIn(dice, dice[k].value, "rolled"), 3)) =>
        /\ TwiceRestores(id)
        /\ call_toggleKeep(call_toggleKeep(Game, id), id) = Game

\* the second click on a die has just put back the triple that a click on
\* it keeps: the state is the one before the first click
C27_Witness ==
  /\ lastOp = "toggleKeep"
  /\ status = "rolling"
  /\ FindDie(pre.dice, arg) # 0
  /\ LET k == FindDie(pre.dice, arg) IN
       /\ pre.dice[k].state = "kept"
       /\ dice[k].state = "rolled"
       /\ OfValIn(dice, dice[k].value, "kept") = {}
       /\ Cardinality(OfValIn(dice, dice[k].value, "rolled")) >= 4
       /\ k \in FirstN(OfValIn(dice, dice[k].value, "rolled"), 3)
       /\ call_toggleKeep(Game, arg).dice = pre.dice
       /\ call_toggleKeep(Game, arg).currentKeepScore = pre.currentKeepScore

\* C28: right after a roll(), in status rolling with no die kept, another
\* roll() leaves every die's value and state, turnScore and status unchanged
\* (there is no free re-roll).
C28_NoFreeReroll ==
  (lastOp = "roll" /\ status = "rolling" /\ InState(dice, "kept") = {}) =>
    \A r \in OutcomesTurn(engine) :
      LET g2 == call_roll(Game, r)
      IN  g2.dice = dice /\ g2.turnScore = turnScore /\ g2.status = status

(***************************************************************************)
(* Properties of the page (SpecUI).                                        *)
(***************************************************************************)
\* C24: the computer's turn always ends (currentPlayerIndex returns to 0 or
\* status becomes win) whatever the human clicks between the timer
\* callbacks; in particular the page is never in a state where it is the
\* computer's turn, status is rolling and no callback is pending, since
\* nothing would end the turn from there.
C24_ComputerTurnEnds ==
  ~(currentPlayerIndex = 1 /\ status = "rolling" /\ aiPc = "idle")

====
